---- MODULE Spec2Model ----
(***************************************************************************)
(* The sector builder's scheduler loop and SectorMetadataManager           *)
(* (filecoin-proofs/src/api/sector_builder/scheduler.rs).                  *)
(*                                                                         *)
(* One action per Request variant the loop dispatches; an action is the    *)
(* whole match arm: the handler, its check_and_schedule, its checkpoint    *)
(* and the reply send.  The arguments of a request, the outcome of the     *)
(* key-value store's put and the state of the caller's reply channel are   *)
(* inputs of the action.  Request is a public enum and the request        *)
(* channel's sender is cloned to every client and sealer worker, so a      *)
(* HandleSealResult may name any sector id, staged or not.                 *)
(***************************************************************************)
EXTENDS Integers, Sequences, FiniteSets, TLC

VARIABLES
    state,            \* SectorMetadataManager.state : SectorBuilderState
    kv_store,         \* the key-value store behind SectorMetadataManager.kv_store
    sealer_input_tx,  \* every SealerInput sent on sealer_input_tx, in send order
    thread,           \* the scheduler thread: "running", "exited" or the FATAL_* it panicked with
    last,             \* the request handled last, its inputs and what was replied
    put_failures,     \* how many writes the key-value store has refused so far
    returned,         \* the sector ids AddPiece has answered callers with
    scheduler_input,  \* the requests in the scheduler's input channel, oldest first
    sent,             \* [id, op] of every request put into the input channel, in order
    popped,           \* [id, op] of every request the loop has received, in order
    pc,               \* the loop's position: "recv", or "finish" (jobs sent, checkpoint due)
    task,             \* the request the loop received last
    replies,          \* per client request, the values delivered on its reply channel
    taken,            \* how many SealerInputs the sealer workers have received
    workers,          \* per sealer worker, the index of the SealerInput it works on (0: idle)
    dispatcher,       \* per SealerInput sent, the id of the request whose handler sent it
    por               \* a call of challenge_into_auth_path_bits: its arguments and locals

\* The variables the handlers of the open loop leave alone.
pool_vars == <<scheduler_input, sent, popped, pc, task, replies, taken, workers,
               dispatcher, por>>

vars == <<state, kv_store, sealer_input_tx, thread, last, put_failures, returned,
          pool_vars>>

(***************************************************************************)
(* Bounds of the model.                                                    *)
(***************************************************************************)
\* Largest sector id the model allocates or receives a seal result for.
MaxSectorId == 2
\* Largest number of writes the key-value store refuses in one run.
MaxPutFailures == 1
\* Largest number of Unseal jobs sent to the sealer pool in one run.
MaxUnsealJobs == 1
\* Largest number of requests the clients send in one run.
MaxRequests == 4

(***************************************************************************)
(* Parameters of Scheduler::start_with_metadata.                           *)
(***************************************************************************)
last_committed_sector_id == 0
max_num_staged_sectors == 1
max_user_bytes_per_staged_sector == 3
prover_id == "prover"
\* Capacity of the scheduler's input channel (a sync_channel made by the caller).
ChannelCapacity == 3

FATAL_NOSEND == "could not send"
FATAL_SNPSHT == "could not snapshot"
FATAL_SLRSND == "could not send to sealer"
FATAL_HUNGUP == "could not send to ret channel"

(***************************************************************************)
(* Values.                                                                 *)
(***************************************************************************)
SectorIds == (last_committed_sector_id + 1)..MaxSectorId
PieceKeys == {"a"}
PieceSizes == 1..(max_user_bytes_per_staged_sector + 1)
SealErrors == {"e"}
CommRs == {"X"}
\* The piece keys a RetrievePiece may ask for, and the callers' reply channels.
RequestedKeys == PieceKeys \cup {"b"}
ReturnChannels == {"tx1", "tx2"}
Workers == {"w1", "w2"}
\* The GeneratePoSt requests: a list of commitments (one of them of no sealed
\* sector, one asked for twice) and a challenge seed.
PoStRequests ==
    {[comm_rs |-> <<>>, challenge_seed |-> "seed1"],
     [comm_rs |-> <<"X", "Y", "X">>, challenge_seed |-> "seed2"]}
\* What the proof generator may return.
PoStOutputs == {[ok |-> TRUE, val |-> "proof"], [ok |-> FALSE, err |-> "post failed"]}

Ok(v) == [ok |-> TRUE, val |-> v]
Err(e) == [ok |-> FALSE, err |-> e]
Some(v) == [some |-> TRUE, val |-> v]
None == [some |-> FALSE]
Unit == "()"

\* SealStatus
Pending == [tag |-> "Pending"]
Sealing == [tag |-> "Sealing"]
Failed(msg) == [tag |-> "Failed", msg |-> msg]
Sealed == [tag |-> "Sealed"]

EmptyMap == [k \in {} |-> 0]

Insert(map, k, v) == [x \in DOMAIN map \cup {k} |-> IF x = k THEN v ELSE map[x]]
Remove(map, k) == [x \in DOMAIN map \ {k} |-> map[x]]

RECURSIVE sum_piece_bytes(_)
sum_piece_bytes(pieces) ==
    IF pieces = <<>> THEN 0
    ELSE Head(pieces).num_bytes + sum_piece_bytes(Tail(pieces))

\* All orderings of a finite set, as sequences.
Orderings(S) ==
    {f \in [1..Cardinality(S) -> S] : \A i, j \in 1..Cardinality(S) : f[i] = f[j] => i = j}

\* HashMap::values(): the values of map in its iteration order, which is some
\* order of the keys that stays the same while the map is not modified.
values(map) ==
    LET order == CHOOSE f \in Orderings(DOMAIN map) : TRUE
    IN  [i \in 1..Cardinality(DOMAIN map) |-> map[order[i]]]

(***************************************************************************)
(* The state built at start-up when no snapshot is stored.                 *)
(***************************************************************************)
InitialState ==
    [prover_id |-> prover_id,
     staged |-> [sector_id_nonce |-> last_committed_sector_id, sectors |-> EmptyMap],
     sealed |-> [sectors |-> EmptyMap]]

(***************************************************************************)
(* helpers::snapshots                                                      *)
(***************************************************************************)
SnapshotKey(pid) == <<"snapshot", pid>>

make_snapshot(pid, staged, sealed) == [prover_id |-> pid, staged |-> staged, sealed |-> sealed]

\* The stored value is the encoded snapshot: a tuple of its three fields.
Serialize(snapshot) == <<snapshot.prover_id, snapshot.staged, snapshot.sealed>>
Deserialize(bytes) == [prover_id |-> bytes[1], staged |-> bytes[2], sealed |-> bytes[3]]

persist_snapshot(kv, snapshot) ==
    Insert(kv, SnapshotKey(snapshot.prover_id), Serialize(snapshot))

load_snapshot(kv, pid) ==
    IF SnapshotKey(pid) \in DOMAIN kv
    THEN Some(Deserialize(kv[SnapshotKey(pid)]))
    ELSE None

\* Mutant of StartState: the stored snapshot is ignored.
StartStateFresh(kv) == InitialState

\* start_with_metadata: the state a scheduler started on kv would begin with.
StartState(kv) ==
    LET loaded == load_snapshot(kv, prover_id)
    IN  IF loaded.some THEN loaded.val ELSE InitialState

(***************************************************************************)
(* helpers::add_piece (packing policy): the destination of a new piece.    *)
(* Only Pending sectors accept bytes.  A piece larger than a sector is     *)
(* refused; a piece that fits a Pending sector goes there; otherwise a new *)
(* staged sector is provisioned under the incremented nonce.  A failed     *)
(* write leaves the staged state as it was.  The result is the set of      *)
(* outcomes the helper may produce: [res, staged].                         *)
(***************************************************************************)
accepted_bytes(sector) == sum_piece_bytes(sector.pieces)

StagingAccess(id) == [kind |-> "staging", n |-> id]
SealedAccess(id) == [kind |-> "sealed", n |-> id]

NewStagedSector(id) ==
    [sector_id |-> id, sector_access |-> StagingAccess(id), pieces |-> <<>>,
     seal_status |-> Pending]

WithPiece(staged, id, piece) ==
    [staged EXCEPT !.sectors[id].pieces = Append(@, piece)]

provision_new_staged_sector(staged) ==
    [sector_id_nonce |-> staged.sector_id_nonce + 1,
     sectors |-> Insert(staged.sectors, staged.sector_id_nonce + 1,
                        NewStagedSector(staged.sector_id_nonce + 1))]

\* Mutant of add_piece_helper: a Pending sector takes the piece whatever room
\* it has left.
add_piece_helper_overfilling(staged, max_bytes, piece_key, num_bytes, write_failed) ==
    LET piece == [piece_key |-> piece_key, num_bytes |-> num_bytes]
        candidates == {id \in DOMAIN staged.sectors :
                          staged.sectors[id].seal_status = Pending}
    IN  IF num_bytes > max_bytes
        THEN {[res |-> Err("CapacityExceeded"), staged |-> staged]}
        ELSE IF write_failed
        THEN {[res |-> Err("SectorStoreError"), staged |-> staged]}
        ELSE IF candidates # {}
        THEN {[res |-> Ok(id), staged |-> WithPiece(staged, id, piece)] : id \in candidates}
        ELSE IF staged.sector_id_nonce < MaxSectorId
        THEN {[res |-> Ok(staged.sector_id_nonce + 1),
               staged |-> WithPiece(provision_new_staged_sector(staged),
                                    staged.sector_id_nonce + 1, piece)]}
        ELSE {}

add_piece_helper(staged, max_bytes, piece_key, num_bytes, write_failed) ==
    LET piece == [piece_key |-> piece_key, num_bytes |-> num_bytes]
        candidates == {id \in DOMAIN staged.sectors :
                          /\ staged.sectors[id].seal_status = Pending
                          /\ max_bytes - accepted_bytes(staged.sectors[id]) >= num_bytes}
    IN  IF num_bytes > max_bytes
        THEN {[res |-> Err("CapacityExceeded"), staged |-> staged]}
        ELSE IF write_failed
        THEN {[res |-> Err("SectorStoreError"), staged |-> staged]}
        ELSE IF candidates # {}
        THEN {[res |-> Ok(id), staged |-> WithPiece(staged, id, piece)] : id \in candidates}
        ELSE IF staged.sector_id_nonce < MaxSectorId
        THEN {[res |-> Ok(staged.sector_id_nonce + 1),
               staged |-> WithPiece(provision_new_staged_sector(staged),
                                    staged.sector_id_nonce + 1, piece)]}
        ELSE {}

(***************************************************************************)
(* helpers::get_sectors_ready_for_sealing (packing policy): the ids to     *)
(* seal now, as the set of vectors the helper may return.  Forced: every   *)
(* Pending sector.  Otherwise every full Pending sector, plus as many      *)
(* non-full Pending sectors as exceed max_num_staged_sectors.              *)
(***************************************************************************)
get_sectors_ready_for_sealing(staged, max_bytes, max_num, seal_all_staged_sectors) ==
    LET pending == {id \in DOMAIN staged.sectors : staged.sectors[id].seal_status = Pending}
        full == {id \in pending : max_bytes - accepted_bytes(staged.sectors[id]) = 0}
        not_full == pending \ full
        excess == IF Cardinality(not_full) > max_num
                  THEN Cardinality(not_full) - max_num ELSE 0
    IN  IF seal_all_staged_sectors
        THEN Orderings(pending)
        ELSE UNION {Orderings(full \cup extra) :
                       extra \in {e \in SUBSET not_full : Cardinality(e) = excess}}

(***************************************************************************)
(* helpers::get_seal_status: staged first, then sealed.                    *)
(***************************************************************************)
get_seal_status(staged, sealed, sector_id) ==
    IF sector_id \in DOMAIN staged.sectors
    THEN Ok(staged.sectors[sector_id].seal_status)
    ELSE IF sector_id \in DOMAIN sealed.sectors
    THEN Ok(Sealed)
    ELSE Err("SectorNotFound")

(***************************************************************************)
(* SectorMetadataManager.  m is the manager: [state, kv_store,             *)
(* sealer_input_tx]; a handler yields the manager after it and what it     *)
(* returned.                                                               *)
(***************************************************************************)
Manager == [state |-> state, kv_store |-> kv_store, sealer_input_tx |-> sealer_input_tx]

\* put_failed: whether the key-value store refuses the write.
checkpoint(m, put_failed) ==
    LET snapshot == make_snapshot(m.state.prover_id, m.state.staged, m.state.sealed)
    IN  IF put_failed
        THEN [m |-> m, ret |-> Err("StoreError")]
        ELSE [m |-> [m EXCEPT !.kv_store = persist_snapshot(m.kv_store, snapshot)],
              ret |-> Ok(Unit)]

SealJob(sector) == [kind |-> "Seal", staged_sector |-> sector]

\* Mutant of check_and_schedule: the Seal job carries the sector marked Sealing,
\* but the mark is not written back to the staged map.
RECURSIVE check_and_schedule_unmarked(_, _)
check_and_schedule_unmarked(m, to_be_sealed) ==
    IF to_be_sealed = <<>> THEN m
    ELSE LET sector_id == Head(to_be_sealed)
             sector == [m.state.staged.sectors[sector_id] EXCEPT !.seal_status = Sealing]
             m1 == [m EXCEPT !.sealer_input_tx = Append(@, SealJob(sector))]
         IN  check_and_schedule_unmarked(m1, Tail(to_be_sealed))

\* to_be_sealed: the vector get_sectors_ready_for_sealing returned.
RECURSIVE check_and_schedule(_, _)
check_and_schedule(m, to_be_sealed) ==
    IF to_be_sealed = <<>> THEN m
    ELSE LET sector_id == Head(to_be_sealed)
             sector == [m.state.staged.sectors[sector_id] EXCEPT !.seal_status = Sealing]
             m1 == [m EXCEPT !.state.staged.sectors[sector_id] = sector,
                             !.sealer_input_tx = Append(@, SealJob(sector))]
         IN  check_and_schedule(m1, Tail(to_be_sealed))

\* helper: the outcome of helpers::add_piece; to_be_sealed as above.
add_piece(m, helper, to_be_sealed, put_failed) ==
    IF ~helper.res.ok THEN [m |-> [m EXCEPT !.state.staged = helper.staged], ret |-> helper.res]
    ELSE LET m1 == [m EXCEPT !.state.staged = helper.staged]
             m2 == check_and_schedule(m1, to_be_sealed)
             ck == checkpoint(m2, put_failed)
         IN  IF ~ck.ret.ok THEN [m |-> ck.m, ret |-> ck.ret]
             ELSE [m |-> ck.m, ret |-> Ok(helper.res.val)]

\* Mutant of seal_all_staged_sectors: no checkpoint when nothing was scheduled.
seal_all_staged_sectors_lazy(m, to_be_sealed, put_failed) ==
    IF to_be_sealed = <<>> THEN [m |-> m, ret |-> Ok(Unit)]
    ELSE checkpoint(check_and_schedule(m, to_be_sealed), put_failed)

seal_all_staged_sectors(m, to_be_sealed, put_failed) ==
    checkpoint(check_and_schedule(m, to_be_sealed), put_failed)

format_err_unrecov(e) == <<"Unrecoverable error", e>>

\* Mutant of handle_seal_result: a sealed sector is inserted into the sealed map
\* without being removed from the staged map.
handle_seal_result_keeps_staged(m, sector_id, result, put_failed) ==
    LET staged_sectors == m.state.staged.sectors
        m1 == IF ~result.ok
              THEN IF sector_id \in DOMAIN staged_sectors
                   THEN [m EXCEPT !.state.staged.sectors[sector_id].seal_status =
                                      Failed(format_err_unrecov(result.err))]
                   ELSE m
              ELSE [m EXCEPT !.state.sealed.sectors = Insert(@, sector_id, result.val)]
        ck == checkpoint(m1, put_failed)
    IN  IF ck.ret.ok THEN [m |-> ck.m, ret |-> Ok(Unit)]
        ELSE [m |-> ck.m, ret |-> Err(FATAL_SNPSHT)]

\* Mutant of handle_seal_result: the checkpoint is taken before the seal result
\* is applied to the maps.
handle_seal_result_early_checkpoint(m, sector_id, result, put_failed) ==
    LET ck == checkpoint(m, put_failed)
        staged_sectors == ck.m.state.staged.sectors
        m1 == IF ~result.ok
              THEN IF sector_id \in DOMAIN staged_sectors
                   THEN [ck.m EXCEPT !.state.staged.sectors[sector_id].seal_status =
                                         Failed(format_err_unrecov(result.err))]
                   ELSE ck.m
              ELSE [ck.m EXCEPT !.state.staged.sectors = Remove(@, sector_id),
                                !.state.sealed.sectors = Insert(@, sector_id, result.val)]
    IN  IF ck.ret.ok THEN [m |-> m1, ret |-> Ok(Unit)]
        ELSE [m |-> m1, ret |-> Err(FATAL_SNPSHT)]

\* result: Ok(SealedSectorMetadata) or Err(e).  ret is the FATAL_* the handler
\* panicked with, or Ok.
handle_seal_result(m, sector_id, result, put_failed) ==
    LET staged_sectors == m.state.staged.sectors
        m1 == IF ~result.ok
              THEN IF sector_id \in DOMAIN staged_sectors
                   THEN [m EXCEPT !.state.staged.sectors[sector_id].seal_status =
                                      Failed(format_err_unrecov(result.err))]
                   ELSE m
              ELSE [m EXCEPT !.state.staged.sectors = Remove(@, sector_id),
                             !.state.sealed.sectors = Insert(@, sector_id, result.val)]
        ck == checkpoint(m1, put_failed)
    IN  IF ck.ret.ok THEN [m |-> ck.m, ret |-> Ok(Unit)]
        ELSE [m |-> ck.m, ret |-> Err(FATAL_SNPSHT)]

\* Mutant of comm_r_to_sector_access: a later sector with the same comm_r
\* replaces the earlier one.
RECURSIVE comm_r_to_sector_access_overwriting(_, _)
comm_r_to_sector_access_overwriting(acc, items) ==
    IF items = <<>> THEN acc
    ELSE LET item == Head(items)
         IN  comm_r_to_sector_access_overwriting(
                 Insert(acc, item.comm_r, item.sector_access), Tail(items))

\* The fold of generate_post: acc.entry(k).or_insert(v) over items.
RECURSIVE comm_r_to_sector_access(_, _)
comm_r_to_sector_access(acc, items) ==
    IF items = <<>> THEN acc
    ELSE LET item == Head(items)
         IN  comm_r_to_sector_access(
                 IF item.comm_r \in DOMAIN acc THEN acc
                 ELSE Insert(acc, item.comm_r, item.sector_access),
                 Tail(items))

PoStInputPart(sealed_sector_access, comm_r) ==
    [sealed_sector_access |-> sealed_sector_access, comm_r |-> comm_r]

PoStInput(challenge_seed, input_parts) ==
    [challenge_seed |-> challenge_seed, input_parts |-> input_parts]

\* output: what internal::generate_post returns for the input it is called
\* with.  calls: the inputs the generator was called with, in call order.
generate_post(m, comm_rs, challenge_seed, output, hung_up) ==
    LET map == comm_r_to_sector_access(EmptyMap, values(m.state.sealed.sectors))
        input_parts ==
            [i \in 1..Len(comm_rs) |->
                PoStInputPart(IF comm_rs[i] \in DOMAIN map THEN Some(map[comm_rs[i]])
                              ELSE None,
                              comm_rs[i])]
    IN  [calls |-> <<PoStInput(challenge_seed, input_parts)>>,
         reply |-> IF hung_up THEN None ELSE Some(output),
         ret |-> IF hung_up THEN Err(FATAL_HUNGUP) ELSE Ok(Unit)]

get_sealed_sectors(m) == Ok(values(m.state.sealed.sectors))

get_staged_sectors(m) == Ok(values(m.state.staged.sectors))

max_user_bytes(m) == max_user_bytes_per_staged_sector

UnsealJob(piece_key, sealed_sector, return_channel) ==
    [kind |-> "Unseal", piece_key |-> piece_key, sealed_sector |-> sealed_sector,
     return_channel |-> return_channel]

err_piecenotfound(piece_key) == <<"PieceNotFound", piece_key>>

\* iter().any(|piece| piece.piece_key == piece_key)
has_piece(sector, piece_key) ==
    \E j \in 1..Len(sector.pieces) : sector.pieces[j].piece_key = piece_key

\* Mutant of retrieve_piece: the coordinator also answers the caller itself when
\* it hands the request to the sealer pool.
retrieve_piece_and_reply(m, piece_key, return_channel, hung_up) ==
    LET sealed == values(m.state.sealed.sectors)
        found == {i \in 1..Len(sealed) : has_piece(sealed[i], piece_key)}
        first == CHOOSE i \in found : \A k \in found : i <= k
    IN  IF found # {}
        THEN IF hung_up THEN [m |-> m, reply |-> None, ret |-> Err(FATAL_SLRSND)]
             ELSE [m |-> [m EXCEPT !.sealer_input_tx =
                              Append(@, UnsealJob(piece_key, sealed[first], return_channel))],
                   reply |-> Some(Err(err_piecenotfound(piece_key))), ret |-> Ok(Unit)]
        ELSE IF hung_up THEN [m |-> m, reply |-> None, ret |-> Err(FATAL_HUNGUP)]
             ELSE [m |-> m, reply |-> Some(Err(err_piecenotfound(piece_key))),
                   ret |-> Ok(Unit)]

\* Mutant of retrieve_piece: the sector handed to the sealer pool is taken out
\* of the sealed map.
retrieve_piece_taking_sector(m, piece_key, return_channel, hung_up) ==
    LET sealed == values(m.state.sealed.sectors)
        found == {i \in 1..Len(sealed) : has_piece(sealed[i], piece_key)}
        first == CHOOSE i \in found : \A k \in found : i <= k
    IN  IF found # {}
        THEN IF hung_up THEN [m |-> m, reply |-> None, ret |-> Err(FATAL_SLRSND)]
             ELSE [m |-> [m EXCEPT !.sealer_input_tx =
                              Append(@, UnsealJob(piece_key, sealed[first], return_channel)),
                                   !.state.sealed.sectors =
                              Remove(@, sealed[first].sector_id)],
                   reply |-> None, ret |-> Ok(Unit)]
        ELSE IF hung_up THEN [m |-> m, reply |-> None, ret |-> Err(FATAL_HUNGUP)]
             ELSE [m |-> m, reply |-> Some(Err(err_piecenotfound(piece_key))),
                   ret |-> Ok(Unit)]

\* hung_up: whether the receiver of the channel the handler sends on (the sealer
\* pool's input, or the caller's reply channel) has been dropped.  reply is what
\* the handler itself put on return_channel.
retrieve_piece(m, piece_key, return_channel, hung_up) ==
    LET sealed == values(m.state.sealed.sectors)
        found == {i \in 1..Len(sealed) : has_piece(sealed[i], piece_key)}
        first == CHOOSE i \in found : \A k \in found : i <= k
    IN  IF found # {}
        THEN IF hung_up THEN [m |-> m, reply |-> None, ret |-> Err(FATAL_SLRSND)]
             ELSE [m |-> [m EXCEPT !.sealer_input_tx =
                              Append(@, UnsealJob(piece_key, sealed[first], return_channel))],
                   reply |-> None, ret |-> Ok(Unit)]
        ELSE IF hung_up THEN [m |-> m, reply |-> None, ret |-> Err(FATAL_HUNGUP)]
             ELSE [m |-> m, reply |-> Some(Err(err_piecenotfound(piece_key))),
                   ret |-> Ok(Unit)]

(***************************************************************************)
(* What a sealer worker reports for a sector: the sealed sector keeps the  *)
(* staged sector's pieces and gets a sealed access and a commitment.       *)
(***************************************************************************)
SealedSectorMetadata(sector_id, pieces, comm_r) ==
    [sector_id |-> sector_id, sector_access |-> SealedAccess(sector_id),
     pieces |-> pieces, comm_r |-> comm_r]

PiecesToSeal(st, sector_id) ==
    IF sector_id \in DOMAIN st.staged.sectors
    THEN st.staged.sectors[sector_id].pieces
    ELSE <<>>

SealResults(st, sector_id) ==
    {Ok(SealedSectorMetadata(sector_id, PiecesToSeal(st, sector_id), c)) : c \in CommRs}
        \cup {Err(e) : e \in SealErrors}

(***************************************************************************)
(* The scheduler thread (Scheduler::start_with_metadata).                  *)
(***************************************************************************)
\* last: op, the request; sector_id, the id it names or was answered with (0: none);
\* result, the seal result a HandleSealResult carried; in_staged, whether sector_id
\* was a staged sector when the request was popped; checkpoint, "ok" / "failed" /
\* "none" (no write attempted); reply, what was sent on the reply channel.
Handled(op, sector_id, result, in_staged, ck, reply) ==
    [op |-> op, sector_id |-> sector_id, result |-> result, in_staged |-> in_staged,
     checkpoint |-> ck, reply |-> reply]

\* last of a request handled as h, with the arguments it carried.
WithArg(h, arg) ==
    [op |-> h.op, sector_id |-> h.sector_id, result |-> h.result,
     in_staged |-> h.in_staged, checkpoint |-> h.checkpoint, reply |-> h.reply,
     arg |-> arg]

\* The outcomes the key-value store may give the next put.
PutOutcomes == IF put_failures < MaxPutFailures THEN BOOLEAN ELSE {FALSE}
CountPut(put_failed) ==
    put_failures' = IF put_failed THEN put_failures + 1 ELSE put_failures

NoTask == [id |-> 0, op |-> "none"]

\* No call of challenge_into_auth_path_bits is under way.
NoCall == [pc |-> "none"]

\* No request sent yet, the loop about to receive, the workers idle.
PoolIdle ==
    /\ scheduler_input = <<>>
    /\ sent = <<>>
    /\ popped = <<>>
    /\ pc = "recv"
    /\ task = NoTask
    /\ replies = [r \in 1..MaxRequests |-> <<>>]
    /\ taken = 0
    /\ workers = [w \in Workers |-> 0]
    /\ dispatcher = <<>>

Init ==
    /\ kv_store = EmptyMap
    /\ state = StartState(kv_store)
    /\ sealer_input_tx = <<>>
    /\ thread = "running"
    /\ last = Handled("start", 0, None, FALSE, "none", None)
    /\ put_failures = 0
    /\ returned = {}
    /\ PoolIdle
    /\ por = NoCall

\* tx.send(v).expects(FATAL_NOSEND): hung_up is whether the caller has dropped
\* the receiving end of the reply channel.
Reply(v, hung_up) == IF hung_up THEN None ELSE Some(v)
\* Mutant of AfterSend: the loop goes on after a reply that could not be sent.
AfterSendIgnored(hung_up) == "running"

AfterSend(hung_up) == IF hung_up THEN FATAL_NOSEND ELSE "running"

SetManager(m) ==
    /\ state' = m.state
    /\ kv_store' = m.kv_store
    /\ sealer_input_tx' = m.sealer_input_tx

AddPiece ==
    /\ thread = "running"
    /\ \E piece_key \in PieceKeys, num_bytes \in PieceSizes,
          write_failed \in BOOLEAN, hung_up \in BOOLEAN :
        \E helper \in add_piece_helper(state.staged, max_user_bytes_per_staged_sector,
                                       piece_key, num_bytes, write_failed) :
          \E to_be_sealed \in get_sectors_ready_for_sealing(
                                  helper.staged, max_user_bytes_per_staged_sector,
                                  max_num_staged_sectors, FALSE),
             put_failed \in IF helper.res.ok THEN PutOutcomes ELSE {FALSE} :
            LET r == add_piece(Manager, helper, to_be_sealed, put_failed)
                ck == IF ~helper.res.ok THEN "none"
                      ELSE IF put_failed THEN "failed" ELSE "ok"
            IN  /\ SetManager(r.m)
                /\ thread' = AfterSend(hung_up)
                /\ CountPut(put_failed)
                /\ last' = WithArg(Handled("AddPiece", IF r.ret.ok THEN r.ret.val ELSE 0,
                                           None, FALSE, ck, Reply(r.ret, hung_up)),
                                   [piece_key |-> piece_key, num_bytes |-> num_bytes])
                /\ returned' = IF r.ret.ok /\ ~hung_up
                               THEN returned \cup {r.ret.val} ELSE returned
                /\ UNCHANGED pool_vars

GetSealStatus ==
    /\ thread = "running"
    /\ \E sector_id \in SectorIds, hung_up \in BOOLEAN :
         /\ thread' = AfterSend(hung_up)
         /\ last' = Handled("GetSealStatus", sector_id, None,
                            sector_id \in DOMAIN state.staged.sectors, "none",
                            Reply(get_seal_status(state.staged, state.sealed, sector_id),
                                  hung_up))
    /\ UNCHANGED <<state, kv_store, sealer_input_tx, put_failures, returned, pool_vars>>

SealAllStagedSectors ==
    /\ thread = "running"
    /\ \E put_failed \in PutOutcomes, hung_up \in BOOLEAN :
        \E to_be_sealed \in get_sectors_ready_for_sealing(
                                state.staged, max_user_bytes_per_staged_sector,
                                max_num_staged_sectors, TRUE) :
          LET r == seal_all_staged_sectors(Manager, to_be_sealed, put_failed)
          IN  /\ SetManager(r.m)
              /\ thread' = AfterSend(hung_up)
              /\ CountPut(put_failed)
              /\ last' = Handled("SealAllStagedSectors", 0, None, FALSE,
                                 IF put_failed THEN "failed" ELSE "ok",
                                 Reply(r.ret, hung_up))
              /\ UNCHANGED <<returned, pool_vars>>

HandleSealResult ==
    /\ thread = "running"
    /\ \E sector_id \in SectorIds, put_failed \in PutOutcomes :
        \E result \in SealResults(state, sector_id) :
          LET r == handle_seal_result(Manager, sector_id, result, put_failed)
          IN  /\ SetManager(r.m)
              /\ thread' = IF r.ret.ok THEN "running" ELSE r.ret.err
              /\ CountPut(put_failed)
              /\ last' = Handled("HandleSealResult", sector_id, Some(result),
                                 sector_id \in DOMAIN state.staged.sectors,
                                 IF put_failed THEN "failed" ELSE "ok", None)
              /\ UNCHANGED <<returned, pool_vars>>

Shutdown ==
    /\ thread = "running"
    /\ thread' = "exited"
    /\ last' = Handled("Shutdown", 0, None, FALSE, "none", None)
    /\ UNCHANGED <<state, kv_store, sealer_input_tx, put_failures, returned, pool_vars>>

Next ==
    \/ AddPiece
    \/ GetSealStatus
    \/ SealAllStagedSectors
    \/ HandleSealResult
    \/ Shutdown

Spec == Init /\ [][Next]_vars

(***************************************************************************)
(* The requests that only read the state.  SpecQuery is the loop serving   *)
(* them between AddPiece and HandleSealResult requests, with a store that  *)
(* accepts every write.                                                    *)
(***************************************************************************)
\* last of a request that carries an argument and a reply channel.
Asked(op, arg, tx, reply) ==
    [op |-> op, sector_id |-> 0, result |-> None, in_staged |-> FALSE,
     checkpoint |-> "none", reply |-> reply, arg |-> arg, tx |-> tx]

UnsealJobsSent ==
    Cardinality({i \in 1..Len(sealer_input_tx) : sealer_input_tx[i].kind = "Unseal"})

RetrievePiece ==
    /\ thread = "running"
    /\ \E piece_key \in RequestedKeys, tx \in ReturnChannels, hung_up \in BOOLEAN :
         LET r == retrieve_piece(Manager, piece_key, tx, hung_up)
         IN  /\ Len(r.m.sealer_input_tx) > Len(sealer_input_tx)
                    => UnsealJobsSent < MaxUnsealJobs
             /\ SetManager(r.m)
             /\ thread' = IF r.ret.ok THEN "running" ELSE r.ret.err
             /\ last' = Asked("RetrievePiece", piece_key, tx, r.reply)
    /\ UNCHANGED <<put_failures, returned, pool_vars>>

\* last of a GeneratePoSt: what the generator was called with and returned.
Generated(request, calls, output, reply) ==
    [op |-> "GeneratePoSt", sector_id |-> 0, result |-> None, in_staged |-> FALSE,
     checkpoint |-> "none", reply |-> reply, arg |-> request,
     calls |-> calls, output |-> output]

GeneratePoSt ==
    /\ thread = "running"
    /\ \E request \in PoStRequests, output \in PoStOutputs, hung_up \in BOOLEAN :
         LET r == generate_post(Manager, request.comm_rs, request.challenge_seed,
                                output, hung_up)
         IN  /\ thread' = IF r.ret.ok THEN "running" ELSE r.ret.err
             /\ last' = Generated(request, r.calls, output, r.reply)
    /\ UNCHANGED <<state, kv_store, sealer_input_tx, put_failures, returned, pool_vars>>

GetSealedSectors ==
    /\ thread = "running"
    /\ \E hung_up \in BOOLEAN :
         /\ thread' = AfterSend(hung_up)
         /\ last' = Handled("GetSealedSectors", 0, None, FALSE, "none",
                            Reply(get_sealed_sectors(Manager), hung_up))
    /\ UNCHANGED <<state, kv_store, sealer_input_tx, put_failures, returned, pool_vars>>

GetStagedSectors ==
    /\ thread = "running"
    /\ \E hung_up \in BOOLEAN :
         /\ thread' = AfterSend(hung_up)
         /\ last' = Handled("GetStagedSectors", 0, None, FALSE, "none",
                            Reply(get_staged_sectors(Manager), hung_up))
    /\ UNCHANGED <<state, kv_store, sealer_input_tx, put_failures, returned, pool_vars>>

GetMaxUserBytesPerStagedSector ==
    /\ thread = "running"
    /\ \E hung_up \in BOOLEAN :
         /\ thread' = AfterSend(hung_up)
         /\ last' = Handled("GetMaxUserBytesPerStagedSector", 0, None, FALSE, "none",
                            Reply(max_user_bytes(Manager), hung_up))
    /\ UNCHANGED <<state, kv_store, sealer_input_tx, put_failures, returned, pool_vars>>

InitQuery ==
    /\ kv_store = EmptyMap
    /\ state = StartState(kv_store)
    /\ sealer_input_tx = <<>>
    /\ thread = "running"
    /\ last = Handled("start", 0, None, FALSE, "none", None)
    /\ put_failures = MaxPutFailures
    /\ returned = {}
    /\ PoolIdle
    /\ por = NoCall

NextQuery ==
    \/ AddPiece
    \/ HandleSealResult
    \/ GetSealStatus
    \/ RetrievePiece
    \/ GetSealedSectors
    \/ GetStagedSectors
    \/ GetMaxUserBytesPerStagedSector
    \/ GeneratePoSt

SpecQuery == InitQuery /\ [][NextQuery]_vars

(***************************************************************************)
(* The scheduler between its clients and the sealer workers.  SpecPool is  *)
(* the loop fed through the input channel: clients send requests, the loop *)
(* receives them one at a time, the workers take the SealerInputs it sends *)
(* and answer with a HandleSealResult request (Seal) or on the caller's    *)
(* reply channel (Unseal).  The handlers of AddPiece and                   *)
(* SealAllStagedSectors take two steps, so that a worker can run between   *)
(* the send of a Seal job and the checkpoint and reply that follow it.     *)
(* The store accepts every write and no caller drops its reply channel.    *)
(***************************************************************************)
\* The requests clients send (id 0: not sent yet).  The reply channel of a
\* request is named by the request's id.
ClientRequests ==
    {[id |-> 0, op |-> "AddPiece", piece_key |-> "a",
      num_bytes |-> max_user_bytes_per_staged_sector],
     [id |-> 0, op |-> "AddPiece", piece_key |-> "a", num_bytes |-> 1],
     [id |-> 0, op |-> "AddPiece", piece_key |-> "a",
      num_bytes |-> max_user_bytes_per_staged_sector + 1],
     [id |-> 0, op |-> "SealAllStagedSectors"],
     [id |-> 0, op |-> "GetSealStatus", sector_id |-> last_committed_sector_id + 1],
     [id |-> 0, op |-> "RetrievePiece", piece_key |-> "a"],
     [id |-> 0, op |-> "Shutdown"]}

\* Request::HandleSealResult as the worker of SealerInput number job sends it.
SealResultRequest(job, sector_id, result) ==
    [id |-> MaxRequests + job, op |-> "HandleSealResult", sector_id |-> sector_id,
     result |-> result]

NextRequestId == Cardinality({i \in 1..Len(sent) : sent[i].id <= MaxRequests}) + 1

Tag(request) == [id |-> request.id, op |-> request.op]

\* SyncSender::send on the input channel (blocks while the channel is full).
CanSend == Len(scheduler_input) < ChannelCapacity
Send(request) ==
    /\ scheduler_input' = Append(scheduler_input, request)
    /\ sent' = Append(sent, Tag(request))

\* Mutant of recv: the newest request in the channel is received.
recv_newest(channel) ==
    [task |-> channel[Len(channel)], rest |-> SubSeq(channel, 1, Len(channel) - 1)]

\* Receiver::recv on a channel that holds a request.
recv(channel) == [task |-> Head(channel), rest |-> Tail(channel)]

\* Mutant of CanRecv: a request is received while a handler is still to
\* checkpoint and reply.
CanRecvMidHandler == thread = "running" /\ scheduler_input # <<>>

\* The loop is at scheduler_input_rx.recv() and a request is waiting.
CanRecv == thread = "running" /\ pc = "recv" /\ scheduler_input # <<>>

\* held: the received request, with what its handler keeps until it returns.
Received == recv(scheduler_input).task
Pop(held) ==
    /\ scheduler_input' = recv(scheduler_input).rest
    /\ popped' = Append(popped, Tag(Received))
    /\ task' = held

\* tx.send(v) on the reply channel of the request being handled.
Deliver(v) == replies' = [replies EXCEPT ![task'.id] = Append(@, v)]

\* The ids of the requests whose handler sent the SealerInputs added to log.
Dispatched(log, id) ==
    dispatcher' = dispatcher \o [i \in 1..(Len(log) - Len(sealer_input_tx)) |-> id]

\* Mutant of CanSendToSealer: the sealer's channel holds one job.
CanSendToSealerBounded(log) ==
    Len(log) > Len(sealer_input_tx) => Len(log) - taken <= 1

\* mpsc::Sender::send on the sealer's channel, whose contents after the send
\* would be log less the jobs taken: the channel is unbounded, the send never
\* waits.
CanSendToSealer(log) == TRUE

ClientSend ==
    /\ thread = "running"
    /\ CanSend
    /\ NextRequestId <= MaxRequests
    /\ \E request \in ClientRequests : Send([request EXCEPT !.id = NextRequestId])
    /\ UNCHANGED <<state, kv_store, sealer_input_tx, thread, last, put_failures, por, returned,
                   popped, pc, task, replies, taken, workers, dispatcher>>

\* AddPiece up to the end of check_and_schedule.
RecvAddPiece ==
    /\ CanRecv
    /\ Received.op = "AddPiece"
    /\ \E helper \in add_piece_helper(state.staged, max_user_bytes_per_staged_sector,
                                      Received.piece_key, Received.num_bytes, FALSE) :
        \E to_be_sealed \in get_sectors_ready_for_sealing(
                                helper.staged, max_user_bytes_per_staged_sector,
                                max_num_staged_sectors, FALSE) :
          LET m1 == [Manager EXCEPT !.state.staged = helper.staged]
              m2 == IF helper.res.ok THEN check_and_schedule(m1, to_be_sealed) ELSE m1
          IN  /\ Pop([id |-> Received.id, op |-> Received.op,
                       destination_sector_id |-> helper.res])
              /\ SetManager(m2)
              /\ CanSendToSealer(m2.sealer_input_tx)
              /\ Dispatched(m2.sealer_input_tx, Received.id)
              /\ IF helper.res.ok
                 THEN pc' = "finish" /\ UNCHANGED replies
                 ELSE pc' = "recv" /\ Deliver(helper.res)
    /\ UNCHANGED <<thread, last, put_failures, por, returned, sent, taken, workers>>

\* SealAllStagedSectors up to the end of check_and_schedule.
RecvSealAllStagedSectors ==
    /\ CanRecv
    /\ Received.op = "SealAllStagedSectors"
    /\ Pop(Received)
    /\ \E to_be_sealed \in get_sectors_ready_for_sealing(
                              state.staged, max_user_bytes_per_staged_sector,
                              max_num_staged_sectors, TRUE) :
          LET m2 == check_and_schedule(Manager, to_be_sealed)
          IN  /\ SetManager(m2)
              /\ CanSendToSealer(m2.sealer_input_tx)
              /\ Dispatched(m2.sealer_input_tx, Received.id)
    /\ pc' = "finish"
    /\ UNCHANGED <<thread, last, put_failures, por, returned, sent, replies, taken, workers>>

\* The checkpoint and the reply that end AddPiece and SealAllStagedSectors.
Finish ==
    /\ thread = "running"
    /\ pc = "finish"
    /\ LET ck == checkpoint(Manager, FALSE)
       IN  /\ SetManager(ck.m)
           /\ replies' = [replies EXCEPT ![task.id] =
                              Append(@, IF ~ck.ret.ok THEN ck.ret
                                        ELSE IF task.op = "AddPiece"
                                        THEN task.destination_sector_id
                                        ELSE Ok(Unit))]
    /\ pc' = "recv"
    /\ UNCHANGED <<thread, last, put_failures, por, returned, scheduler_input, sent, popped,
                   task, taken, workers, dispatcher>>

RecvHandleSealResult ==
    /\ CanRecv
    /\ Received.op = "HandleSealResult"
    /\ Pop(Received)
    /\ LET r == handle_seal_result(Manager, Received.sector_id, Received.result, FALSE)
       IN  /\ SetManager(r.m)
           /\ thread' = IF r.ret.ok THEN "running" ELSE r.ret.err
    /\ pc' = "recv"
    /\ UNCHANGED <<last, put_failures, por, returned, sent, replies, taken, workers,
                   dispatcher>>

RecvGetSealStatus ==
    /\ CanRecv
    /\ Received.op = "GetSealStatus"
    /\ Pop(Received)
    /\ Deliver(get_seal_status(state.staged, state.sealed, Received.sector_id))
    /\ pc' = "recv"
    /\ UNCHANGED <<state, kv_store, sealer_input_tx, thread, last, put_failures, por,
                   returned, sent, taken, workers, dispatcher>>

RecvRetrievePiece ==
    /\ CanRecv
    /\ Received.op = "RetrievePiece"
    /\ Pop(Received)
    /\ LET r == retrieve_piece(Manager, Received.piece_key, Received.id, FALSE)
       IN  /\ SetManager(r.m)
           /\ CanSendToSealer(r.m.sealer_input_tx)
           /\ Dispatched(r.m.sealer_input_tx, Received.id)
           /\ IF r.reply.some THEN Deliver(r.reply.val) ELSE UNCHANGED replies
    /\ pc' = "recv"
    /\ UNCHANGED <<thread, last, put_failures, por, returned, sent, taken, workers>>

\* Mutant of RecvShutdown: the loop goes on after a Shutdown.
RecvShutdownContinues ==
    /\ CanRecv
    /\ Received.op = "Shutdown"
    /\ Pop(Received)
    /\ thread' = "running"
    /\ pc' = "recv"
    /\ UNCHANGED <<state, kv_store, sealer_input_tx, last, put_failures, por, returned,
                   sent, replies, taken, workers, dispatcher>>

RecvShutdown ==
    /\ CanRecv
    /\ Received.op = "Shutdown"
    /\ Pop(Received)
    /\ thread' = "exited"
    /\ pc' = "recv"
    /\ UNCHANGED <<state, kv_store, sealer_input_tx, last, put_failures, por, returned,
                   sent, replies, taken, workers, dispatcher>>

(***************************************************************************)
(* The sealer workers: each takes the oldest SealerInput not yet taken,    *)
(* works on it, and sends the outcome.                                     *)
(***************************************************************************)
WorkerTake(w) ==
    /\ workers[w] = 0
    /\ taken < Len(sealer_input_tx)
    /\ taken' = taken + 1
    /\ workers' = [workers EXCEPT ![w] = taken + 1]
    /\ UNCHANGED <<state, kv_store, sealer_input_tx, thread, last, put_failures, por, returned,
                   scheduler_input, sent, popped, pc, task, replies, dispatcher>>

\* What sealing a staged sector may yield.
SealOutcomes(staged_sector) ==
    {Ok(SealedSectorMetadata(staged_sector.sector_id, staged_sector.pieces, c)) :
        c \in CommRs} \cup {Err(e) : e \in SealErrors}

\* The worker sends the outcome as a HandleSealResult on its clone of the
\* input channel's sender; the send fails once the scheduler thread is gone.
WorkerSeal(w) ==
    /\ workers[w] # 0
    /\ sealer_input_tx[workers[w]].kind = "Seal"
    /\ \E result \in SealOutcomes(sealer_input_tx[workers[w]].staged_sector) :
         IF thread = "running"
         THEN /\ CanSend
              /\ Send(SealResultRequest(
                         workers[w], sealer_input_tx[workers[w]].staged_sector.sector_id,
                         result))
         ELSE UNCHANGED <<scheduler_input, sent>>
    /\ workers' = [workers EXCEPT ![w] = 0]
    /\ UNCHANGED <<state, kv_store, sealer_input_tx, thread, last, put_failures, por, returned,
                   popped, pc, task, replies, taken, dispatcher>>

\* What unsealing a piece may yield.
UnsealOutcomes(piece_key) == {Ok(<<"bytes of", piece_key>>), Err("unseal failed")}

\* The worker sends the outcome on the reply channel the job carries.
WorkerUnseal(w) ==
    /\ workers[w] # 0
    /\ sealer_input_tx[workers[w]].kind = "Unseal"
    /\ \E result \in UnsealOutcomes(sealer_input_tx[workers[w]].piece_key) :
         replies' = [replies EXCEPT ![sealer_input_tx[workers[w]].return_channel] =
                        Append(@, result)]
    /\ workers' = [workers EXCEPT ![w] = 0]
    /\ UNCHANGED <<state, kv_store, sealer_input_tx, thread, last, put_failures, por, returned,
                   scheduler_input, sent, popped, pc, task, taken, dispatcher>>

NextPool ==
    \/ ClientSend
    \/ RecvAddPiece
    \/ RecvSealAllStagedSectors
    \/ Finish
    \/ RecvHandleSealResult
    \/ RecvGetSealStatus
    \/ RecvRetrievePiece
    \/ RecvShutdown
    \/ \E w \in Workers : WorkerTake(w)
    \/ \E w \in Workers : WorkerSeal(w)
    \/ \E w \in Workers : WorkerUnseal(w)

SpecPool == Init /\ [][NextPool]_vars

(***************************************************************************)
(* Restart.  SpecRestart is the loop serving the requests that change the  *)
(* state, on a store that may refuse a write, where a scheduler that has   *)
(* shut down is started again on the same store, with a new channel to its *)
(* sealer pool.                                                            *)
(***************************************************************************)
\* Mutant of Start: the Seal jobs of the restored Sealing sectors are sent again.
StartResending ==
    /\ thread = "exited"
    /\ state' = StartState(kv_store)
    /\ sealer_input_tx' =
           LET sealing == SelectSeq(values(StartState(kv_store).staged.sectors),
                                    LAMBDA sector : sector.seal_status = Sealing)
           IN  [i \in 1..Len(sealing) |-> SealJob(sealing[i])]
    /\ thread' = "running"
    /\ last' = Handled("start", 0, None, FALSE, "none", None)
    /\ UNCHANGED <<kv_store, put_failures, returned, pool_vars>>

\* start_with_metadata, up to the first recv: the state is loaded from the
\* store; nothing is sent and nothing is written.
Start ==
    /\ thread = "exited"
    /\ state' = StartState(kv_store)
    /\ sealer_input_tx' = <<>>
    /\ thread' = "running"
    /\ last' = Handled("start", 0, None, FALSE, "none", None)
    /\ UNCHANGED <<kv_store, put_failures, returned, pool_vars>>

NextRestart ==
    \/ AddPiece
    \/ SealAllStagedSectors
    \/ HandleSealResult
    \/ Shutdown
    \/ Start

SpecRestart == Init /\ [][NextRestart]_vars

(***************************************************************************)
(* Progress.  SpecProgress is the scheduler between its clients and the    *)
(* sealer workers when no client sends Shutdown: the scheduler thread goes *)
(* on receiving while a request waits, and a worker goes on taking jobs    *)
(* and sending their outcomes while it can.                                *)
(***************************************************************************)
AddPiecesSent(log) == Cardinality({i \in 1..Len(log) : log[i].op = "AddPiece"})

\* A client sends a request other than Shutdown; no more AddPiece requests are
\* sent than there are sector ids.
ClientSendNoShutdown ==
    /\ ClientSend
    /\ sent'[Len(sent')].op # "Shutdown"
    /\ AddPiecesSent(sent') <= MaxSectorId

\* One turn of the loop of the scheduler thread.
SchedulerStep ==
    \/ RecvAddPiece
    \/ RecvSealAllStagedSectors
    \/ Finish
    \/ RecvHandleSealResult
    \/ RecvGetSealStatus
    \/ RecvRetrievePiece

NextProgress ==
    \/ ClientSendNoShutdown
    \/ SchedulerStep
    \/ \E w \in Workers : WorkerTake(w)
    \/ \E w \in Workers : WorkerSeal(w)
    \/ \E w \in Workers : WorkerUnseal(w)

Fairness ==
    /\ WF_vars(SchedulerStep)
    /\ \A w \in Workers :
          /\ WF_vars(WorkerTake(w))
          /\ WF_vars(WorkerSeal(w))
          /\ WF_vars(WorkerUnseal(w))

SpecProgress == Init /\ [][NextProgress]_vars /\ Fairness

(***************************************************************************)
(* Dropped receivers.  SpecFatal is the loop serving every request but     *)
(* Shutdown, with a store that accepts every write, where the caller may   *)
(* have dropped its reply channel and the sealer pool may have dropped its *)
(* input channel when the handler sends.  Seal results arrive only for the *)
(* jobs that were sent.                                                    *)
(***************************************************************************)
\* check_and_schedule when the send to the sealer pool fails: the first sector
\* is marked, and the send panics.
check_and_schedule_hung_up(m, to_be_sealed) ==
    IF to_be_sealed = <<>> THEN [m |-> m, ret |-> Ok(Unit)]
    ELSE [m |-> [m EXCEPT !.state.staged.sectors[Head(to_be_sealed)].seal_status = Sealing],
          ret |-> Err(FATAL_SLRSND)]

\* last of a handler that panicked in check_and_schedule: no checkpoint, no reply.
Panicked(op) == Handled(op, 0, None, FALSE, "none", None)

\* An AddPiece whose Seal job cannot be sent.
AddPieceSealerGone ==
    /\ thread = "running"
    /\ \E piece_key \in PieceKeys, num_bytes \in PieceSizes :
        \E helper \in add_piece_helper(state.staged, max_user_bytes_per_staged_sector,
                                       piece_key, num_bytes, FALSE) :
          \E to_be_sealed \in get_sectors_ready_for_sealing(
                                  helper.staged, max_user_bytes_per_staged_sector,
                                  max_num_staged_sectors, FALSE) :
            LET r == check_and_schedule_hung_up(
                         [Manager EXCEPT !.state.staged = helper.staged], to_be_sealed)
            IN  /\ helper.res.ok
                /\ ~r.ret.ok
                /\ SetManager(r.m)
                /\ thread' = r.ret.err
                /\ last' = WithArg(Panicked("AddPiece"),
                                   [piece_key |-> piece_key, num_bytes |-> num_bytes])
    /\ UNCHANGED <<put_failures, returned, pool_vars>>

\* A SealAllStagedSectors whose first Seal job cannot be sent.
SealAllStagedSectorsSealerGone ==
    /\ thread = "running"
    /\ \E to_be_sealed \in get_sectors_ready_for_sealing(
                              state.staged, max_user_bytes_per_staged_sector,
                              max_num_staged_sectors, TRUE) :
          LET r == check_and_schedule_hung_up(Manager, to_be_sealed)
          IN  /\ ~r.ret.ok
              /\ SetManager(r.m)
              /\ thread' = r.ret.err
              /\ last' = Panicked("SealAllStagedSectors")
    /\ UNCHANGED <<put_failures, returned, pool_vars>>

\* The HandleSealResult requests a sealer pool sends: for a sector whose Seal
\* job it was sent.
HandleSealResultOfJob ==
    /\ HandleSealResult
    /\ \E i \in 1..Len(sealer_input_tx) :
          /\ sealer_input_tx[i].kind = "Seal"
          /\ sealer_input_tx[i].staged_sector.sector_id = last'.sector_id

NextFatal ==
    \/ AddPiece
    \/ AddPieceSealerGone
    \/ SealAllStagedSectors
    \/ SealAllStagedSectorsSealerGone
    \/ HandleSealResultOfJob
    \/ GetSealStatus
    \/ RetrievePiece
    \/ GetSealedSectors
    \/ GetStagedSectors
    \/ GetMaxUserBytesPerStagedSector
    \/ GeneratePoSt

SpecFatal == InitQuery /\ [][NextFatal]_vars

(***************************************************************************)
(* storage-proofs/src/circuit/por.rs: challenge_into_auth_path_bits.       *)
(* SpecPoR is one call of the function: Init draws its arguments, an       *)
(* action is one turn of its loop, or its return.  The scheduler takes no  *)
(* step.                                                                   *)
(***************************************************************************)
\* The arguments drawn: challenges 0..MaxChallenge, trees of 1..MaxLeaves leaves.
MaxChallenge == 15
MaxLeaves == 8

\* drgraph::graph_height: the height of a Merkle tree over that many leaves,
\* the least h with 2^h >= leaves.
graph_height(leaves) ==
    CHOOSE h \in 0..leaves : 2^h >= leaves /\ \A k \in 0..(h - 1) : 2^k < leaves

\* The call before the first turn of its loop.
Call(challenge, leaves) ==
    [pc |-> "loop", challenge |-> challenge, leaves |-> leaves,
     height |-> graph_height(leaves), n |-> challenge, bits |-> <<>>]

InitPoR ==
    /\ kv_store = EmptyMap
    /\ state = StartState(kv_store)
    /\ sealer_input_tx = <<>>
    /\ thread = "running"
    /\ last = Handled("start", 0, None, FALSE, "none", None)
    /\ put_failures = 0
    /\ returned = {}
    /\ PoolIdle
    /\ por \in {Call(challenge, leaves) :
                   challenge \in 0..MaxChallenge, leaves \in 1..MaxLeaves}

\* Mutant of PushBit: n is not shifted.
PushBitNoShift ==
    /\ por.pc = "loop"
    /\ Len(por.bits) < por.height
    /\ por' = [por EXCEPT !.bits = Append(@, por.n % 2 = 1)]
    /\ UNCHANGED <<state, kv_store, sealer_input_tx, thread, last, put_failures, returned,
                   scheduler_input, sent, popped, pc, task, replies, taken, workers,
                   dispatcher>>

\* One turn of for _ in 0..height: bits.push(n & 1 == 1); n >>= 1.
PushBit ==
    /\ por.pc = "loop"
    /\ Len(por.bits) < por.height
    /\ por' = [por EXCEPT !.bits = Append(@, por.n % 2 = 1), !.n = por.n \div 2]
    /\ UNCHANGED <<state, kv_store, sealer_input_tx, thread, last, put_failures, returned,
                   scheduler_input, sent, popped, pc, task, replies, taken, workers,
                   dispatcher>>

\* The loop is over and bits is returned.
ReturnBits ==
    /\ por.pc = "loop"
    /\ Len(por.bits) = por.height
    /\ por' = [por EXCEPT !.pc = "returned"]
    /\ UNCHANGED <<state, kv_store, sealer_input_tx, thread, last, put_failures, returned,
                   scheduler_input, sent, popped, pc, task, replies, taken, workers,
                   dispatcher>>

NextPoR == PushBit \/ ReturnBits

SpecPoR == InitPoR /\ [][NextPoR]_vars

(***************************************************************************)
(* Properties.                                                             *)
(***************************************************************************)
MutatingOps == {"AddPiece", "SealAllStagedSectors", "HandleSealResult"}
StagedIds == DOMAIN state.staged.sectors
SealedIds == DOMAIN state.sealed.sectors
SealJobsFor(id) ==
    Cardinality({i \in 1..Len(sealer_input_tx) :
                    /\ sealer_input_tx[i].kind = "Seal"
                    /\ sealer_input_tx[i].staged_sector.sector_id = id})

\* C1: after a mutating handler (AddPiece, SealAllStagedSectors, HandleSealResult)
\* has returned, the snapshot stored under the prover's key deserializes to the
\* in-memory state (with nothing stored, the state is still the start-up state).
C1_SnapshotIsState ==
    (thread = "running" /\ last.op \in MutatingOps) => StartState(kv_store) = state

\* C2: after a handler has returned, no sector id is a key of both the staged map
\* and the sealed map.
C2_StagedSealedDisjoint ==
    thread = "running" => StagedIds \cap SealedIds = {}

\* C3: no sector has had more than one Seal job sent to the sealer pool, and every
\* staged sector that is Sealing has had exactly one.
C3_OneSealJobPerSector ==
    \A id \in SectorIds :
        /\ SealJobsFor(id) <= 1
        /\ (id \in StagedIds /\ state.staged.sectors[id].seal_status = Sealing)
               => SealJobsFor(id) = 1

\* C3 witness: a SealAllStagedSectors has been handled while a sector that had its
\* Seal job was Failed and another was Sealing, and neither got a second job.
C3_Witness ==
    /\ last.op = "SealAllStagedSectors"
    /\ thread = "running"
    /\ \E id \in StagedIds :
          /\ state.staged.sectors[id].seal_status.tag = "Failed"
          /\ SealJobsFor(id) = 1
    /\ \E id \in StagedIds :
          /\ state.staged.sectors[id].seal_status = Sealing
          /\ SealJobsFor(id) = 1

\* C4: a HandleSealResult for an id that is not in the staged map aborts the
\* scheduler and changes neither the state nor the stored snapshot.
C4_UnknownSectorIsFatal ==
    [][(last'.op = "HandleSealResult" /\ last'.sector_id \notin StagedIds)
          => (thread' \notin {"running", "exited"}
              /\ state' = state /\ kv_store' = kv_store)]_vars

\* C5: a snapshot write that fails after the handler changed the in-memory state
\* aborts the scheduler, whichever mutating handler it was.
C5_FailedCheckpointIsFatal ==
    (last.op \in MutatingOps /\ last.checkpoint = "failed" /\ StartState(kv_store) # state)
        => thread # "running"

\* C6: once HandleSealResult(id, Ok(sealed)) for a staged id has returned, id is no
\* longer staged, the sealed map holds the given SealedSector under id, the stored
\* snapshot is the state, and GetSealStatus(id) answers Sealed.
C6_SealOkMovesSector ==
    (last.op = "HandleSealResult" /\ last.result.val.ok /\ last.in_staged
     /\ thread = "running")
        => /\ last.sector_id \notin StagedIds
           /\ last.sector_id \in SealedIds
           /\ state.sealed.sectors[last.sector_id] = last.result.val.val
           /\ load_snapshot(kv_store, prover_id) = Some(state)
           /\ get_seal_status(state.staged, state.sealed, last.sector_id) = Ok(Sealed)

\* C6 witness: a sector that was dispatched for sealing with pieces in it has been
\* reported sealed while it was staged, and the handler has returned.
C6_Witness ==
    /\ last.op = "HandleSealResult" /\ last.result.val.ok /\ last.in_staged
    /\ thread = "running"
    /\ SealJobsFor(last.sector_id) = 1
    /\ last.sector_id \in SealedIds
    /\ state.sealed.sectors[last.sector_id].pieces # <<>>

\* C7: HandleSealResult(id, Err(e)) for a staged id, once returned, has left the
\* sector staged with every field but seal_status as it was and seal_status =
\* Failed(formatted e), has changed no other sector of either map nor the nonce,
\* has stored the snapshot of that state, and GetSealStatus(id) answers that Failed.
C7_SealErrMarksFailed ==
    [][(last'.op = "HandleSealResult" /\ ~last'.result.val.ok
        /\ last'.sector_id \in StagedIds /\ thread' = "running")
          => LET id == last'.sector_id
                 failed == Failed(format_err_unrecov(last'.result.val.err))
             IN  /\ state'.staged.sectors =
                        [state.staged.sectors EXCEPT ![id].seal_status = failed]
                 /\ state'.staged.sector_id_nonce = state.staged.sector_id_nonce
                 /\ state'.sealed = state.sealed
                 /\ load_snapshot(kv_store', prover_id) = Some(state')
                 /\ get_seal_status(state'.staged, state'.sealed, id) = Ok(failed)]_vars

\* C7 witness: a seal error was recorded for one staged sector while another sector
\* was staged and a third party of the state, a sealed sector, existed.
C7_Witness ==
    /\ last.op = "HandleSealResult" /\ ~last.result.val.ok /\ last.in_staged
    /\ thread = "running"
    /\ state.staged.sectors[last.sector_id].seal_status.tag = "Failed"
    /\ \E other \in (StagedIds \cup SealedIds) : other # last.sector_id

\* The status of sector id as the sector state machine sees it.
StatusTag(st, id) ==
    IF id \in DOMAIN st.staged.sectors THEN st.staged.sectors[id].seal_status.tag
    ELSE IF id \in DOMAIN st.sealed.sectors THEN "Sealed"
    ELSE "absent"

\* C8: a staged sector's status changes only Pending -> Sealing (by AddPiece or
\* SealAllStagedSectors), Sealing -> Sealed and Sealing -> Failed (by
\* HandleSealResult); a Failed sector stays staged and Failed.
C8_SectorStateMachine ==
    [][\A id \in StagedIds :
          LET old == state.staged.sectors[id].seal_status
              new == StatusTag(state', id)
          IN  \/ (id \in DOMAIN state'.staged.sectors
                  /\ state'.staged.sectors[id].seal_status = old)
              \/ (old = Pending /\ new = "Sealing"
                  /\ last'.op \in {"AddPiece", "SealAllStagedSectors"})
              \/ (old = Sealing /\ new \in {"Sealed", "Failed"}
                  /\ last'.op = "HandleSealResult")]_vars

\* C9: a value stored in the sealed map is never changed or removed.
C9_SealedIsImmutable ==
    [][\A id \in SealedIds :
          /\ id \in DOMAIN state'.sealed.sectors
          /\ state'.sealed.sectors[id] = state.sealed.sectors[id]]_vars

\* C10: every key of the staged map and of the sealed map is at most
\* staged.sector_id_nonce, and the nonce never decreases.
C10_IdsBelowNonce ==
    /\ [](\A id \in StagedIds \cup SealedIds : id <= state.staged.sector_id_nonce)
    /\ [][state'.staged.sector_id_nonce >= state.staged.sector_id_nonce]_vars

\* C11: GetSealStatus(s) for an id s that a successful AddPiece has returned never
\* answers SectorNotFound, and answers Sealed exactly when s is a key of the
\* sealed map.
C11_StatusOfAddedSector ==
    (last.op = "GetSealStatus" /\ last.reply.some /\ last.sector_id \in returned)
        => /\ last.reply.val.ok
           /\ (last.reply.val.val = Sealed) <=> (last.sector_id \in SealedIds)

\* C12: RetrievePiece(key) sends one Unseal job, carrying key, the caller's reply
\* channel and a copy of a sealed sector that holds a piece with that key, and
\* sends no reply itself, if and only if some sealed sector holds such a piece;
\* otherwise it sends no job and replies PieceNotFound(key).  Staged sectors are
\* not searched.
C12_RetrievePieceDispatch ==
    [][(last'.op = "RetrievePiece" /\ thread' = "running")
          => LET key == last'.arg
                 holders == {id \in SealedIds : has_piece(state.sealed.sectors[id], key)}
             IN  IF holders # {}
                 THEN /\ last'.reply = None
                      /\ \E id \in holders :
                            sealer_input_tx' =
                                Append(sealer_input_tx,
                                       UnsealJob(key, state.sealed.sectors[id], last'.tx))
                 ELSE /\ last'.reply = Some(Err(err_piecenotfound(key)))
                      /\ sealer_input_tx' = sealer_input_tx]_vars

\* C12 witness: a RetrievePiece for a key held by a sealed sector and by a staged
\* sector has been handed to the sealer pool.
C12_Witness ==
    /\ last.op = "RetrievePiece" /\ thread = "running" /\ last.reply = None
    /\ sealer_input_tx[Len(sealer_input_tx)].kind = "Unseal"
    /\ \E id \in StagedIds : has_piece(state.staged.sectors[id], last.arg)

PendingIds(st) ==
    {id \in DOMAIN st.staged.sectors : st.staged.sectors[id].seal_status = Pending}

\* C19: SealAllStagedSectors marks every Pending staged sector Sealing, full or
\* not, and sends one Seal job for each, carrying the marked sector; it changes
\* nothing else in the maps, so no staged sector is Pending when it returns.
\* With no Pending sector it sends no job, and when the store accepts the write
\* it stores the snapshot and answers Ok.
C19_SealAllSchedulesPending ==
    [][last'.op = "SealAllStagedSectors"
          => LET pending == PendingIds(state)
                 n == Len(sealer_input_tx)
             IN  /\ PendingIds(state') = {}
                 /\ state'.staged =
                        [state.staged EXCEPT !.sectors =
                            [id \in StagedIds |->
                                IF id \in pending
                                THEN [state.staged.sectors[id] EXCEPT !.seal_status = Sealing]
                                ELSE state.staged.sectors[id]]]
                 /\ state'.sealed = state.sealed
                 /\ Len(sealer_input_tx') = n + Cardinality(pending)
                 /\ SubSeq(sealer_input_tx', 1, n) = sealer_input_tx
                 /\ \A id \in pending :
                       \E i \in (n + 1)..Len(sealer_input_tx') :
                           sealer_input_tx'[i] = SealJob(state'.staged.sectors[id])
                 /\ last'.checkpoint = "ok"
                        => /\ load_snapshot(kv_store', prover_id) = Some(state')
                           /\ last'.reply.some => last'.reply.val = Ok(Unit)]_vars

\* C19 witness: SealAllStagedSectors has returned after sending, last, the Seal
\* job of a sector that was not full, and has stored the snapshot.
C19_Witness ==
    /\ last.op = "SealAllStagedSectors" /\ thread = "running"
    /\ last.checkpoint = "ok"
    /\ sealer_input_tx # <<>>
    /\ LET job == sealer_input_tx[Len(sealer_input_tx)]
       IN  /\ job.kind = "Seal"
           /\ accepted_bytes(job.staged_sector) < max_user_bytes_per_staged_sector
           /\ job.staged_sector.sector_id \in StagedIds
           /\ state.staged.sectors[job.staged_sector.sector_id] = job.staged_sector

\* C20: an AddPiece of more bytes than a sector holds is answered
\* CapacityExceeded, and an AddPiece that is answered with an error has changed
\* neither the maps, the nonce, the jobs sent nor the stored snapshot.
C20_FailedAddPieceChangesNothing ==
    [][(last'.op = "AddPiece" /\ last'.reply.some)
          => /\ last'.arg.num_bytes > max_user_bytes_per_staged_sector
                    => last'.reply.val = Err("CapacityExceeded")
             /\ ~last'.reply.val.ok
                    => /\ state' = state
                       /\ sealer_input_tx' = sealer_input_tx
                       /\ kv_store' = kv_store]_vars

ReadOnlyOps ==
    {"GetSealStatus", "GetSealedSectors", "GetStagedSectors",
     "GetMaxUserBytesPerStagedSector", "RetrievePiece", "GeneratePoSt"}
GetOps == ReadOnlyOps \ {"RetrievePiece", "GeneratePoSt"}

\* C18: a GetSealStatus, GetSealedSectors, GetStagedSectors,
\* GetMaxUserBytesPerStagedSector, RetrievePiece or GeneratePoSt changes neither
\* the staged map, the sealed map, the nonce nor the stored snapshot and sends no
\* Seal job (a RetrievePiece may send one Unseal job); a Get* query asked again
\* right after itself gets the answer it got.
C18_QueriesChangeNothing ==
    [][last'.op \in ReadOnlyOps
          => /\ state' = state
             /\ kv_store' = kv_store
             /\ \/ sealer_input_tx' = sealer_input_tx
                \/ /\ last'.op = "RetrievePiece"
                   /\ Len(sealer_input_tx') = Len(sealer_input_tx) + 1
                   /\ SubSeq(sealer_input_tx', 1, Len(sealer_input_tx)) = sealer_input_tx
                   /\ sealer_input_tx'[Len(sealer_input_tx')].kind = "Unseal"
             /\ (/\ last'.op \in GetOps /\ last.op = last'.op
                 /\ last.sector_id = last'.sector_id
                 /\ last.reply.some /\ last'.reply.some)
                    => last'.reply = last.reply]_vars

\* C18 witness: GetStagedSectors has listed a sector that holds a piece, after a
\* RetrievePiece sent an Unseal job, with the stored snapshot equal to the state.
C18_Witness ==
    /\ last.op = "GetStagedSectors" /\ thread = "running"
    /\ \E i \in 1..Len(last.reply.val.val) : last.reply.val.val[i].pieces # <<>>
    /\ UnsealJobsSent = 1
    /\ load_snapshot(kv_store, prover_id) = Some(state)

IsPrefix(p, q) == Len(p) <= Len(q) /\ SubSeq(q, 1, Len(p)) = p

\* The handler of the request with this id has returned.
HandlerReturned(id) ==
    \E i \in 1..Len(popped) :
        popped[i].id = id /\ (i < Len(popped) \/ pc = "recv" \/ thread # "running")

\* The Unseal jobs that carry the reply channel of request id.
UnsealJobsOf(id) ==
    {i \in 1..Len(sealer_input_tx) :
        sealer_input_tx[i].kind = "Unseal" /\ sealer_input_tx[i].return_channel = id}

\* A worker has taken SealerInput number i and is through with it.
JobDone(i) == i <= taken /\ \A w \in Workers : workers[w] # i

\* The coordinator itself owes the request popped i-th a reply.
Owed(i) ==
    \/ popped[i].op \in {"AddPiece", "SealAllStagedSectors", "GetSealStatus"}
    \/ popped[i].op = "RetrievePiece" /\ UnsealJobsOf(popped[i].id) = {}

\* C14: the loop receives the requests in the order they entered the input
\* channel, one at a time: when it receives a request, the handler of every
\* request received before has returned, its checkpoint is stored and its reply
\* is sent.
C14_SerialFifo ==
    /\ [](IsPrefix(popped, sent))
    /\ [][popped' # popped
            => /\ popped' = Append(popped, sent[Len(popped) + 1])
               /\ pc = "recv"
               /\ StartState(kv_store) = state
               /\ \A i \in 1..Len(popped) :
                     Owed(i) => Len(replies[popped[i].id]) = 1]_vars

\* C14 witness: the loop has received a worker's HandleSealResult and client
\* requests, and is at recv with a full input channel behind it.
C14_Witness ==
    /\ pc = "recv" /\ thread = "running"
    /\ Len(scheduler_input) = ChannelCapacity
    /\ Len(popped) >= 3
    /\ \E i \in 1..Len(popped) : popped[i].op = "HandleSealResult"

\* C15: when the loop receives the HandleSealResult of a Seal job, the handler
\* of the AddPiece or SealAllStagedSectors that sent the job has returned: its
\* checkpoint is stored and its reply is sent.
C15_SealResultAfterDispatcher ==
    [][(Len(popped') > Len(popped)
        /\ popped'[Len(popped')].op = "HandleSealResult")
          => LET d == dispatcher[popped'[Len(popped')].id - MaxRequests]
             IN  /\ \E i \in 1..Len(popped) : popped[i].id = d
                 /\ ~(pc = "finish" /\ task.id = d)
                 /\ Len(replies[d]) = 1
                 /\ load_snapshot(kv_store, prover_id) = Some(state)]_vars

\* C15 witness: a worker has sealed a sector and queued its HandleSealResult
\* while the handler that sent the job has yet to checkpoint and reply.
C15_Witness ==
    /\ pc = "finish" /\ thread = "running"
    /\ \E i \in 1..Len(scheduler_input) :
          /\ scheduler_input[i].op = "HandleSealResult"
          /\ dispatcher[scheduler_input[i].id - MaxRequests] = task.id

\* C16: no reply channel is ever sent more than one value, by the coordinator and
\* the workers together; a request not received yet has none, and a request whose
\* handler has returned has exactly one, unless its reply is the business of an
\* Unseal job, in which case it has none until a worker is through with the job
\* and one from then on.
C16_OneReplyPerRequest ==
    \A id \in 1..MaxRequests :
        /\ Len(replies[id]) <= 1
        /\ (\A i \in 1..Len(popped) : popped[i].id # id) => replies[id] = <<>>
        /\ \A i \in 1..Len(popped) :
              (popped[i].id = id /\ HandlerReturned(id) /\ popped[i].op # "Shutdown")
                  => Len(replies[id]) =
                        IF Owed(i) \/ \E j \in UnsealJobsOf(id) : JobDone(j)
                        THEN 1 ELSE 0

\* C16 witness: a RetrievePiece has been answered by the worker that unsealed
\* the piece, and by nobody else.
C16_Witness ==
    \E i \in 1..Len(popped) :
        /\ popped[i].op = "RetrievePiece"
        /\ \E j \in UnsealJobsOf(popped[i].id) : JobDone(j)
        /\ Len(replies[popped[i].id]) = 1

ShutdownPopped == \E i \in 1..Len(popped) : popped[i].op = "Shutdown"

\* C17: once the loop has received a Shutdown the scheduler thread is gone: no
\* request behind it is received, the state, the stored snapshot and the jobs
\* sent stay as they are, and the requests left in the channel get no reply.
C17_ShutdownStopsLoop ==
    /\ [](ShutdownPopped => thread = "exited")
    /\ [][ShutdownPopped
            => /\ popped' = popped
               /\ state' = state /\ kv_store' = kv_store
               /\ sealer_input_tx' = sealer_input_tx
               /\ \A i \in 1..Len(scheduler_input) :
                     /\ i <= Len(scheduler_input') /\ scheduler_input'[i] = scheduler_input[i]
                     /\ scheduler_input[i].id <= MaxRequests
                            => replies'[scheduler_input[i].id] = <<>>]_vars

\* C17 witness: the loop has shut down with a client's request and the
\* HandleSealResult of a job that was in flight left in the channel, and a
\* worker still sealing.
C17_Witness ==
    /\ thread = "exited"
    /\ \E i, j \in 1..Len(scheduler_input) :
          /\ scheduler_input[i].op = "HandleSealResult"
          /\ scheduler_input[j].op \in {"AddPiece", "GetSealStatus"}
    /\ \E w \in Workers : workers[w] # 0

\* The staged sectors that are full after a step and were not before it.
FilledBy(id) ==
    /\ id \in DOMAIN state'.staged.sectors
    /\ accepted_bytes(state'.staged.sectors[id]) = max_user_bytes_per_staged_sector
    /\ id \in StagedIds
           => accepted_bytes(state.staged.sectors[id]) < max_user_bytes_per_staged_sector

NewSealJobsFor(id) ==
    {i \in (Len(sealer_input_tx) + 1)..Len(sealer_input_tx') :
        /\ sealer_input_tx'[i].kind = "Seal"
        /\ sealer_input_tx'[i].staged_sector.sector_id = id}

\* C21: a sector becomes full only by an AddPiece whose piece went to it; when
\* check_and_schedule of that AddPiece has returned the sector is Sealing and
\* one Seal job, carrying the sector, has been sent for it, the only one ever
\* sent for it, and no reply has been sent yet; the checkpoint and the reply
\* Ok(id) follow, changing neither the maps nor the jobs.
C21_FullSectorIsScheduled ==
    [][/\ \A id \in SectorIds :
             FilledBy(id)
                 => /\ pc = "recv" /\ pc' = "finish"
                    /\ task'.op = "AddPiece"
                    /\ task'.destination_sector_id = Ok(id)
                    /\ state'.staged.sectors[id].seal_status = Sealing
                    /\ Cardinality(NewSealJobsFor(id)) = 1
                    /\ \A i \in NewSealJobsFor(id) :
                          sealer_input_tx'[i] = SealJob(state'.staged.sectors[id])
                    /\ SealJobsFor(id) = 0
                    /\ replies' = replies
                    /\ replies[task'.id] = <<>>
       /\ (pc = "finish" /\ pc' = "recv" /\ task.op = "AddPiece")
             => /\ replies' = [replies EXCEPT ![task.id] = <<task.destination_sector_id>>]
                /\ state' = state
                /\ sealer_input_tx' = sealer_input_tx]_vars

\* C21 witness: an AddPiece has filled a sector that already held a piece; the
\* sector is Sealing, its job is sent, and the handler has yet to checkpoint and
\* reply.
C21_Witness ==
    /\ pc = "finish" /\ task.op = "AddPiece"
    /\ replies[task.id] = <<>>
    /\ task.destination_sector_id.ok
    /\ LET id == task.destination_sector_id.val
       IN  /\ id \in StagedIds
           /\ Len(state.staged.sectors[id].pieces) > 1
           /\ accepted_bytes(state.staged.sectors[id]) = max_user_bytes_per_staged_sector
           /\ state.staged.sectors[id].seal_status = Sealing
           /\ SealJobsFor(id) = 1

\* C22: a scheduler starts with the snapshot stored under its prover id when
\* there is one, and otherwise with nonce last_committed_sector_id and no
\* sector; the store changes only by a checkpoint that succeeds, and then holds
\* the state that handler left, so a scheduler started again begins with the
\* state of the last checkpoint that succeeded; and the first AddPiece answered
\* Ok on an empty store is answered last_committed_sector_id + 1.
C22_StartsFromSnapshot ==
    /\ [](last.op = "start"
            => IF SnapshotKey(prover_id) \in DOMAIN kv_store
               THEN Serialize(state) = kv_store[SnapshotKey(prover_id)]
               ELSE /\ state.prover_id = prover_id
                    /\ state.staged.sector_id_nonce = last_committed_sector_id
                    /\ state.staged.sectors = EmptyMap
                    /\ state.sealed.sectors = EmptyMap)
    /\ [][/\ kv_store' # kv_store
              => /\ last'.checkpoint = "ok"
                 /\ DOMAIN kv_store' = {SnapshotKey(prover_id)}
                 /\ Deserialize(kv_store'[SnapshotKey(prover_id)]) = state'
          /\ (/\ last.op = "start" /\ kv_store = EmptyMap
              /\ last'.op = "AddPiece" /\ last'.reply.some /\ last'.reply.val.ok)
              => last'.reply.val.val = last_committed_sector_id + 1]_vars

\* C22 witness: a scheduler has started again on a store that holds staged and
\* sealed sectors, after a run in which the store refused a write.
C22_Witness ==
    /\ last.op = "start" /\ thread = "running"
    /\ kv_store # EmptyMap
    /\ StagedIds # {} /\ SealedIds # {}
    /\ put_failures = MaxPutFailures

\* C23: whatever requests have been handled, no staged sector holds more bytes
\* than max_user_bytes_per_staged_sector.
C23_StagedSectorFits ==
    \A id \in StagedIds :
        accepted_bytes(state.staged.sectors[id]) <= max_user_bytes_per_staged_sector

\* C23 witness: an AddPiece was answered with a new sector because its piece did
\* not fit the room left in a Pending sector, which is still Pending.
C23_Witness ==
    /\ last.op = "AddPiece" /\ thread = "running"
    /\ last.sector_id = last_committed_sector_id + 2
    /\ last_committed_sector_id + 1 \in StagedIds
    /\ LET other == state.staged.sectors[last_committed_sector_id + 1]
       IN  /\ other.seal_status = Pending
           /\ accepted_bytes(other) < max_user_bytes_per_staged_sector
           /\ accepted_bytes(other) + last.arg.num_bytes > max_user_bytes_per_staged_sector

\* C24: with a scheduler thread and workers that keep running and no Shutdown, a
\* staged sector that is Sealing is eventually either in the sealed map and no
\* longer in the staged map, or Failed in the staged map.
C24_SealingEnds ==
    \A id \in SectorIds :
        (id \in StagedIds /\ state.staged.sectors[id].seal_status = Sealing)
            ~> \/ id \in SealedIds /\ id \notin StagedIds
               \/ id \in StagedIds /\ state.staged.sectors[id].seal_status.tag = "Failed"

\* C24 witness: of two sectors that were Sealing, one is in the sealed map only
\* and the other is Failed in the staged map, while a request waits to be
\* received.
C24_Witness ==
    /\ thread = "running"
    /\ \E a, b \in SectorIds :
          /\ a \in SealedIds /\ a \notin StagedIds
          /\ b \in StagedIds /\ state.staged.sectors[b].seal_status.tag = "Failed"
    /\ scheduler_input # <<>>

\* The requests whose handler sends on the caller's reply channel, itself or
\* by handing the channel to the sealer pool.
AnsweredOps ==
    {"AddPiece", "GetSealStatus", "SealAllStagedSectors", "RetrievePiece",
     "GetSealedSectors", "GetStagedSectors", "GetMaxUserBytesPerStagedSector",
     "GeneratePoSt"}

FatalSends == {FATAL_NOSEND, FATAL_HUNGUP, FATAL_SLRSND}

WorkerBlocked(w) ==
    /\ workers[w] # 0
    /\ sealer_input_tx[workers[w]].kind = "Seal"
    /\ thread = "running"
    /\ ~CanSend

C27_RestoredSealingIsLeftAlone ==
    [][/\ last'.op = "start"
            => /\ sealer_input_tx' = <<>>
               /\ kv_store' = kv_store
       /\ last'.op # "start"
            => /\ \A i \in (Len(sealer_input_tx) + 1)..Len(sealer_input_tx') :
                     /\ sealer_input_tx'[i].kind = "Seal"
                     /\ last'.op \in {"AddPiece", "SealAllStagedSectors"}
                     /\ LET id == sealer_input_tx'[i].staged_sector.sector_id
                        IN  id \in StagedIds
                                => state.staged.sectors[id].seal_status = Pending
               /\ \A id \in StagedIds :
                     (/\ state.staged.sectors[id].seal_status = Sealing
                      /\ \/ id \notin DOMAIN state'.staged.sectors
                         \/ state'.staged.sectors[id].seal_status # Sealing)
                        => last'.op = "HandleSealResult" /\ last'.sector_id = id]_vars

\* C27 witness: after a start that restored a Sealing and a Failed sector, a
\* SealAllStagedSectors has returned; neither sector has a job in the
\* sealer's channel and both are as they were restored.
C27_Witness ==
    /\ last.op = "SealAllStagedSectors" /\ thread = "running"
    /\ \E a, b \in StagedIds :
          /\ state.staged.sectors[a].seal_status = Sealing
          /\ state.staged.sectors[b].seal_status.tag = "Failed"
          /\ SealJobsFor(a) = 0 /\ SealJobsFor(b) = 0

\* Bit i of x, bit 0 being the least significant.
Bit(x, i) == (x \div 2^i) % 2 = 1

\* C28: the vector challenge_into_auth_path_bits returns has graph_height(leaves)
\* elements, element i (from 0) being bit i of challenge; it is also what the
\* bits of challenge modulo 2^height give, so the bits of challenge from
\* position height on do not count.
C28_AuthPathBits ==
    por.pc = "returned"
        => /\ Len(por.bits) = graph_height(por.leaves)
           /\ \A i \in 0..(graph_height(por.leaves) - 1) :
                 /\ por.bits[i + 1] = Bit(por.challenge, i)
                 /\ por.bits[i + 1] = Bit(por.challenge % 2^graph_height(por.leaves), i)

\* C28 witness: the function has returned a vector of at least two elements,
\* not all equal, for a challenge that has a bit set at position height or
\* above.
C28_Witness ==
    /\ por.pc = "returned"
    /\ por.height >= 2
    /\ por.challenge >= 2^por.height
    /\ \E i, j \in 1..Len(por.bits) : por.bits[i] /\ ~por.bits[j]

====
